---- MODULE Spec2Model ----
(***************************************************************************)
(* Model of ai_trade_bot.py: the TradingBot background thread (run), the   *)
(* request handlers that share its state (snapshot, configure, api_log,    *)
(* api_history), and the pure helpers the cycle calls (get_price,          *)
(* get_history, get_prediction, latest_news, groq_decision).               *)
(*                                                                         *)
(* Prices are integers in millionths (0.04 is 40000).  A Python dict is  *)
(* a function from field names to values; an optional value is a sequence  *)
(* of length 0 (None) or 1.                                                *)
(***************************************************************************)
EXTENDS Integers, Sequences, FiniteSets, TLC

VARIABLES
    coin, vs, interval,   \* self.coin, self.vs, self.interval
    snap,                 \* self._snap
    log,                  \* self.log
    file,                 \* content of self.log_file on disk
    lock,                 \* self.lock: the set of threads holding it (0 or 1)
    GROQ_API_KEY,         \* module constant, fixed at import
    pc,                   \* worker's position in run()
    loc,                  \* worker's local variables of the current cycle
    now,                  \* wall clock, in completed sleeps
    hpc, hreq,            \* per handler thread: position, request being served
    cfgs,                 \* number of configure calls accepted so far
    written,              \* history: configurations assigned so far
    published, abandoned, \* history: cycles ended by publish / by except
    groqCalls,            \* history: calls made to the generative service
    faults                \* history: failures the environment has injected

vars == <<coin, vs, interval, snap, log, file, lock, GROQ_API_KEY, pc, loc, now,
          hpc, hreq, cfgs, written, published, abandoned, groqCalls, faults>>

-----------------------------------------------------------------------------
(* Bounds of the model *)

MaxCycles == 2        \* cycles the worker may begin
MaxReconfigs == 1     \* configure calls the handlers may accept in total
MaxFaults == 1        \* failures of the worker's outbound calls and file writes
NumHandlers == 1      \* concurrent request-handler threads

(* Program constants *)

MinInterval == 5      \* max(5, ...) in run and configure
HistTail == 6         \* [-6:] in run
NewsLimit == 5        \* latest_news(limit=5)
DefaultInterval == 60 \* TradingBot.__init__(interval=60)
Micro == 1000000      \* six decimals, the ".6f" of the prompt

Worker == 0
Handlers == 1..NumHandlers

None == << >>
Some(v) == <<v>>

PLACEHOLDER == "YOUR_GROQ_API_KEY_HERE"

-----------------------------------------------------------------------------
(* Strings *)

\* str.upper() on the strings the model uses
Upper(s) ==
    CASE s = "xrp"  -> "XRP"
      [] s = "btc"  -> "BTC"
      [] s = "doge" -> "DOGE"
      [] s = "usd"  -> "USD"
      [] s = "eur"  -> "EUR"
      [] s = "buy"  -> "BUY"
      [] s = "sell" -> "SELL"
      [] s = "hold" -> "HOLD"
      [] s = "maybe" -> "MAYBE"
      [] s = "now"  -> "NOW"
      [] OTHER      -> s

\* str.lower() on the strings the model uses
Lower(s) ==
    CASE s = "XRP"  -> "xrp"
      [] s = "BTC"  -> "btc"
      [] s = "DOGE" -> "doge"
      [] s = "USD"  -> "usd"
      [] s = "EUR"  -> "eur"
      [] OTHER      -> s

RECURSIVE Join(_, _)
\* sep.join(xs)
Join(xs, sep) ==
    IF xs = << >> THEN ""
    ELSE IF Len(xs) = 1 THEN xs[1]
    ELSE xs[1] \o sep \o Join(Tail(xs), sep)

\* xs[-n:]
LastN(xs, n) == IF Len(xs) <= n THEN xs ELSE SubSeq(xs, Len(xs) - n + 1, Len(xs))

\* xs[:n]
FirstN(xs, n) == IF Len(xs) <= n THEN xs ELSE SubSeq(xs, 1, n)

MaxOf(a, b) == IF a >= b THEN a ELSE b

\* d[k] = v on a dict
DictSet(d, k, v) == [f \in DOMAIN d \cup {k} |-> IF f = k THEN v ELSE d[f]]

EmptyDict == [f \in {} |-> 0]

-----------------------------------------------------------------------------
(* The providers' data *)

\* CoinGecko's coin list
Listing == { [symbol |-> "xrp", id |-> "ripple"], [symbol |-> "btc", id |-> "bitcoin"] }

\* {c["symbol"].upper(): c["id"] for c in data}
SYMBOL_MAP == [s \in {Upper(c.symbol) : c \in Listing} |->
                 (CHOOSE c \in Listing : Upper(c.symbol) = s).id]

\* the quote CoinGecko serves for an id and a quote currency (small enough for
\* the products of get_prediction to stay within TLC's integers)
Quote(cid, v) ==
    CASE cid = "ripple"  /\ v = "usd" -> 40000
      [] cid = "ripple"  /\ v = "eur" -> 36000
      [] cid = "bitcoin" /\ v = "usd" -> 30000
      [] cid = "bitcoin" /\ v = "eur" -> 27000

Currencies == {"usd", "eur"}

\* CoinCodex's 7-day prediction in USD
Forecast(sym) ==
    CASE sym = "xrp" -> Some(44000)
      [] sym = "btc" -> Some(33000)
      [] OTHER       -> None

HistLen == 7          \* hourly points the chart endpoint serves in the model

\* the hourly chart: (timestamp, price) pairs, ascending
Chart(cid, v) == [i \in 1..HistLen |-> <<i, Quote(cid, v) - (HistLen - i) * 1000>>]

\* the feed's entry titles, most recent first
FeedTitles == <<"A", "B", "C", "D", "E", "F">>

-----------------------------------------------------------------------------
(* Results of calls that may raise *)

Return(v) == [ok |-> TRUE, val |-> v]
Raise(e) == [ok |-> FALSE, err |-> e]

\* mutant of get_price: the check of cid is missing, and the lookup in the
\* provider's answer fails instead
get_price_unchecked(sym, v, net) ==
    IF net = "fail" THEN Raise("UpstreamError")
    ELSE IF Upper(sym) \notin DOMAIN SYMBOL_MAP \/ Lower(v) \notin Currencies
         THEN Raise("KeyError")
    ELSE IF net = "zero" THEN Return(0)
    ELSE Return(Quote(SYMBOL_MAP[Upper(sym)], Lower(v)))

(* get_price(sym, vs); net is what the HTTP call does: "ok", "zero" (the      *)
(* provider quotes 0.0) or "fail" (network, HTTP or JSON failure).           *)
get_price(sym, v, net) ==
    IF Upper(sym) \notin DOMAIN SYMBOL_MAP THEN Raise("ValueError")
    ELSE IF net = "fail" THEN Raise("UpstreamError")
    ELSE IF Lower(v) \notin Currencies THEN Raise("KeyError")
    ELSE IF net = "zero" THEN Return(0)
    ELSE Return(Quote(SYMBOL_MAP[Upper(sym)], Lower(v)))

(* get_history(sym, vs, days=1): an unknown symbol gives cid None, and the   *)
(* provider's error document has no "prices" key.                            *)
get_history(sym, v, net) ==
    IF net = "fail" THEN Raise("UpstreamError")
    ELSE IF Upper(sym) \notin DOMAIN SYMBOL_MAP \/ Lower(v) \notin Currencies
         THEN Return(<< >>)
    ELSE Return(Chart(SYMBOL_MAP[Upper(sym)], Lower(v)))

PredOutcomes == {"ok", "neterr", "nofield", "pricefail", "zerousd"}

(* The statements of get_prediction's try block; o is the outcome of its     *)
(* HTTP calls.                                                               *)
prediction_try(sym, v, o) ==
    LET j        == IF o = "neterr" THEN Raise("UpstreamError")
                    ELSE IF o = "nofield" \/ Forecast(Lower(sym)) = None
                         THEN Raise("KeyError")
                    ELSE Return(Forecast(Lower(sym))[1])
        net      == IF o = "pricefail" THEN "fail" ELSE "ok"
        cur_vs   == get_price(sym, v, net)
        cur_usd  == get_price(sym, "USD", IF o = "zerousd" THEN "zero" ELSE net)
    IN  IF ~j.ok THEN j
        ELSE IF Upper(v) = "USD" THEN Return(Some(j.val))
        ELSE IF ~cur_vs.ok THEN cur_vs
        ELSE IF ~cur_usd.ok THEN cur_usd
        ELSE IF cur_usd.val = 0 THEN Return(None)
        ELSE Return(Some((j.val * cur_vs.val) \div cur_usd.val))

\* mutant of get_prediction: no except clause
get_prediction_unguarded(sym, v, o) == prediction_try(sym, v, o)

(* get_prediction(sym, vs): try ... except Exception: return None            *)
get_prediction(sym, v, o) ==
    LET r == prediction_try(sym, v, o)
    IN  IF r.ok THEN r ELSE Return(None)

FeedOutcomes == {"ok", "bozo", "raise"}

(* latest_news(limit): feedparser.parse reports a failed fetch as a result    *)
(* with no entries ("bozo"); an entry without a title, or an error feedparser *)
(* does not catch, raises out of the comprehension ("raise").                 *)
latest_news(limit, feed) ==
    IF feed = "raise" THEN Raise("AttributeError")
    ELSE IF feed = "bozo" THEN Return(<< >>)
    ELSE Return(FirstN(FeedTitles, limit))

-----------------------------------------------------------------------------
(* groq_decision *)

IsSpace(t) == t = " "

RECURSIVE LStrip(_)
LStrip(ts) == IF ts # << >> /\ IsSpace(ts[1]) THEN LStrip(Tail(ts)) ELSE ts

RECURSIVE RStrip(_)
RStrip(ts) ==
    IF ts # << >> /\ IsSpace(ts[Len(ts)]) THEN RStrip(SubSeq(ts, 1, Len(ts) - 1)) ELSE ts

\* str.strip() on a text given as its runs of whitespace and non-whitespace
Strip(ts) == RStrip(LStrip(ts))

\* str.split(): the non-whitespace runs
Split(ts) == SelectSeq(ts, LAMBDA t : ~IsSpace(t))

\* f"{p:.6f}": the digits before and after the decimal point
Fmt6(p) == [whole |-> p \div Micro, frac |-> p % Micro]

(* The prompt, line by line.  Each line of the f-string is kept as the       *)
(* values it interpolates: the headlines (one "- h" line each), the pair and *)
(* the price, the forecast as pred_text ("N/A" or six decimals), the recent  *)
(* prices at six decimals; the fixed instruction line closes it.             *)
BuildPrompt(news, price, prediction, recent, c, v) ==
    LET pred_text   == IF prediction # None
                       THEN [na |-> FALSE, num |-> Fmt6(prediction[1])]
                       ELSE [na |-> TRUE, num |-> Fmt6(0)]
        recent_line == [i \in 1..Len(recent) |-> Fmt6(recent[i])]
    IN  [headlines |-> news,
         current   |-> [coin |-> c, vs |-> v, price |-> price],
         forecast  |-> pred_text,
         recent    |-> recent_line,
         instr     |-> "Respond with BUY, SELL, or HOLD (one word)."]

\* mutant of NoKey: the placeholder passes for a key
NoKeyEmptyOnly(key) == key = ""

\* not GROQ_API_KEY or GROQ_API_KEY == "YOUR_GROQ_API_KEY_HERE"
NoKey(key) == key = "" \/ key = PLACEHOLDER

\* the replies the service gives in the model, and "raise" for a failed call
Replies == { <<" ", "sell", " ", "now", " ">>, <<"maybe">>, <<" ">> }
Services == [ok : {TRUE}, val : Replies] \cup {Raise("APIError")}

\* mutant of groq_decision: a reply without a word counts as HOLD
groq_decision_blank_holds(news, price, prediction, recent, c, v, key, svc) ==
    LET prompt == BuildPrompt(news, price, prediction, recent, c, v)
        ai_raw == Strip(svc.val)
    IN  IF NoKey(key)
            THEN [res |-> Return(<<"HOLD", prompt, "Groq key missing - default HOLD">>),
                  called |-> FALSE]
        ELSE IF ~svc.ok
            THEN [res |-> Raise(svc.err), called |-> TRUE]
        ELSE IF Split(ai_raw) = << >>
            THEN [res |-> Return(<<"HOLD", prompt, "">>), called |-> TRUE]
        ELSE [res |-> Return(<<Upper(Split(ai_raw)[1]), prompt, Join(ai_raw, "")>>),
              called |-> TRUE]

(* groq_decision(news, price, prediction, recent, coin, vs): the result       *)
(* (decision, prompt, ai_raw) or the exception, and whether the service was   *)
(* called.                                                                    *)
groq_decision(news, price, prediction, recent, c, v, key, svc) ==
    LET prompt == BuildPrompt(news, price, prediction, recent, c, v)
        ai_raw == Strip(svc.val)
    IN  IF NoKey(key)
            THEN [res |-> Return(<<"HOLD", prompt, "Groq key missing - default HOLD">>),
                  called |-> FALSE]
        ELSE IF ~svc.ok
            THEN [res |-> Raise(svc.err), called |-> TRUE]
        ELSE IF Split(ai_raw) = << >>
            THEN [res |-> Raise("IndexError"), called |-> TRUE]
        ELSE [res |-> Return(<<Upper(Split(ai_raw)[1]), prompt, Join(ai_raw, "")>>),
              called |-> TRUE]

-----------------------------------------------------------------------------
(* The state *)

NoPrompt == BuildPrompt(<< >>, 0, None, << >>, "", "")

\* the worker's locals at the top of the loop body; coin is the value of
\* self.coin read for the call being made, pair (history) the arguments the
\* cycle's get_price was called with, exc the exception the except clause binds
NoLocals ==
    [coin |-> "", price |-> 0, hist |-> << >>, news |-> << >>,
     pred |-> None, decision |-> "", prompt |-> NoPrompt, ai_raw |-> "", dur |-> 0,
     pair |-> <<"", "">>, exc |-> ""]

\* a handler thread serving nothing
NoRequest == [op |-> "none", coin |-> "", vs |-> "", interval |-> 0]

\* os.getenv("GROQ_API_KEY"): unset (None), empty, the placeholder, a key
EnvKeys == {None, Some(""), Some(PLACEHOLDER), Some("gsk_key")}

\* os.getenv("GROQ_API_KEY") or "YOUR_GROQ_API_KEY_HERE"
KeyFromEnv(e) == IF e = None \/ e[1] = "" THEN PLACEHOLDER ELSE e[1]

\* arguments TradingBot may be constructed with: the defaults, and others
CtorArgs == { <<"XRP", "USD", DefaultInterval>>, <<"doge", "usd", 1>> }

\* the arguments configure is called with
CfgArgs == { <<"doge", "eur", 1>>, <<"xrp", "usd", 7>> }

\* the log file before the first save
NoFile == [state |-> "absent", content |-> << >>]

\* TradingBot.__init__ with arguments from args, and the import of the module
InitWith(args) ==
    /\ \E a \in args :
          /\ coin = Upper(a[1])
          /\ vs = Upper(a[2])
          /\ interval = a[3]
          /\ written = { <<Upper(a[1]), Upper(a[2]), a[3]>> }
    /\ \E e \in EnvKeys : GROQ_API_KEY = KeyFromEnv(e)
    /\ snap = EmptyDict
    /\ log = << >>
    /\ file = NoFile
    /\ lock = {}
    /\ pc = "price_coin"
    /\ loc = NoLocals
    /\ now = 0
    /\ hpc = [h \in Handlers |-> "idle"]
    /\ hreq = [h \in Handlers |-> NoRequest]
    /\ cfgs = 0
    /\ published = 0
    /\ abandoned = 0
    /\ groqCalls = 0
    /\ faults = 0

\* bot = TradingBot()
Init == InitWith({ <<"XRP", "USD", DefaultInterval>> })

\* TradingBot(coin, vs, interval) with any of CtorArgs
InitAnyCtor == InitWith(CtorArgs)

shared == <<coin, vs, interval, snap, log, file>>
config == <<coin, vs, interval>>
handlers == <<hpc, hreq, cfgs>>
history == <<written, published, abandoned, groqCalls, faults>>

-----------------------------------------------------------------------------
(* TradingBot.run: one action per step of the loop body.  The worker reads   *)
(* self.coin and self.vs without the lock, one attribute at a time, so each  *)
(* call is two steps: the read of self.coin, then the read of self.vs and    *)
(* the call.                                                                 *)

\* the worker moves on within the try block, touching only its locals
Step(to, locals) ==
    /\ pc' = to
    /\ loc' = locals
    /\ UNCHANGED <<shared, lock, GROQ_API_KEY, now, handlers, written, published,
                   abandoned>>

\* the environment makes a call fail (bad) only while its budget lasts
Inject(bad) ==
    /\ bad => faults < MaxFaults
    /\ faults' = faults + (IF bad THEN 1 ELSE 0)

PriceReadCoin ==
    /\ pc = "price_coin"
    /\ Step("price_call", [loc EXCEPT !.coin = coin])
    /\ UNCHANGED <<groqCalls, faults>>

\* price = get_price(self.coin, self.vs)
PriceCall ==
    /\ pc = "price_call"
    /\ \E net \in {"ok", "fail"} :
          LET r == get_price(loc.coin, vs, net)
          IN  /\ Inject(net # "ok")
              /\ IF r.ok
                 THEN Step("hist_coin", [loc EXCEPT !.coin = "", !.price = r.val,
                                                    !.pair = <<loc.coin, vs>>])
                 ELSE Step("except", [loc EXCEPT !.exc = r.err])
    /\ UNCHANGED groqCalls

HistReadCoin ==
    /\ pc = "hist_coin"
    /\ Step("hist_call", [loc EXCEPT !.coin = coin])
    /\ UNCHANGED <<groqCalls, faults>>

\* hist = get_history(self.coin, self.vs, days=1)[-6:]
HistCall ==
    /\ pc = "hist_call"
    /\ \E net \in {"ok", "fail"} :
          LET r == get_history(loc.coin, vs, net)
          IN  /\ Inject(net # "ok")
              /\ IF r.ok
                 THEN Step("news", [loc EXCEPT !.coin = "", !.hist = LastN(r.val, HistTail)])
                 ELSE Step("except", [loc EXCEPT !.exc = r.err])
    /\ UNCHANGED groqCalls

\* news = latest_news()
News ==
    /\ pc = "news"
    /\ \E feed \in FeedOutcomes :
          LET r == latest_news(NewsLimit, feed)
          IN  /\ Inject(feed # "ok")
              /\ IF r.ok
                 THEN Step("pred_coin", [loc EXCEPT !.news = r.val])
                 ELSE Step("except", [loc EXCEPT !.exc = r.err])
    /\ UNCHANGED groqCalls

PredReadCoin ==
    /\ pc = "pred_coin"
    /\ Step("pred_call", [loc EXCEPT !.coin = coin])
    /\ UNCHANGED <<groqCalls, faults>>

\* pred = get_prediction(self.coin, self.vs)
PredCall ==
    /\ pc = "pred_call"
    /\ \E o \in PredOutcomes :
          LET r == get_prediction(loc.coin, vs, o)
          IN  /\ Inject(o # "ok")
              /\ IF r.ok
                 THEN Step("decide_coin", [loc EXCEPT !.coin = "", !.pred = r.val])
                 ELSE Step("except", [loc EXCEPT !.exc = r.err])
    /\ UNCHANGED groqCalls

DecideReadCoin ==
    /\ pc = "decide_coin"
    /\ Step("decide_call", [loc EXCEPT !.coin = coin])
    /\ UNCHANGED <<groqCalls, faults>>

\* recent_vals = [p[1] for p in hist]
\* decision, prompt, ai_raw = groq_decision(news, price, pred, recent_vals, ...)
DecideCall ==
    /\ pc = "decide_call"
    /\ \E svc \in Services :
          LET recent_vals == [i \in 1..Len(loc.hist) |-> loc.hist[i][2]]
              d == groq_decision(loc.news, loc.price, loc.pred, recent_vals,
                                 loc.coin, vs, GROQ_API_KEY, svc)
          IN  /\ Inject(d.called /\ ~svc.ok)
              /\ groqCalls' = groqCalls + (IF d.called THEN 1 ELSE 0)
              /\ IF d.res.ok
                 THEN Step("acquire", [loc EXCEPT !.coin = "",
                                                  !.decision = d.res.val[1],
                                                  !.prompt = d.res.val[2],
                                                  !.ai_raw = d.res.val[3]])
                 ELSE Step("except", [loc EXCEPT !.exc = d.res.err])

\* with self.lock:
Acquire ==
    /\ pc = "acquire"
    /\ lock = {}
    /\ lock' = {Worker}
    /\ pc' = "publish"
    /\ UNCHANGED <<shared, GROQ_API_KEY, loc, now, handlers, history>>

\* the dict the worker builds under the lock
MakeSnapshot(t, c, v, i, l) ==
    [time |-> t, coin |-> c, vs |-> v, price |-> l.price, prediction |-> l.pred,
     decision |-> l.decision, prompt |-> l.prompt, ai_raw |-> l.ai_raw,
     interval |-> i, news |-> l.news]

\* mutants of AppendLog: the append is forgotten; the entry is appended twice
AppendLogForgotten(l, s) == l
AppendLogTwice(l, s) == Append(Append(l, s), s)

\* mutant of AppendLog: the log is replaced by a list of the new entry
AppendLogReplaces(l, s) == <<s>>

\* self.log.append(dict(self._snap))
AppendLog(l, s) == Append(l, s)

\* mutant of save_log: only the newest entry is written
save_log_newest(f, l, io) ==
    IF io = "ok" THEN [state |-> "written", content |-> <<l[Len(l)]>>]
    ELSE [state |-> "failed", content |-> << >>]

(* save_log: the log is written to the file in full; a failure of open or of *)
(* json.dump is caught and printed, and leaves the file with its old content *)
(* or a truncated document, which the model does not tell apart.             *)
save_log(f, l, io) ==
    IF io = "ok" THEN [state |-> "written", content |-> l]
    ELSE [state |-> "failed", content |-> << >>]

\* self._snap = {...}; self.log.append(dict(self._snap)); self.save_log()
Publish ==
    /\ pc = "publish"
    /\ lock = {Worker}
    /\ snap' = MakeSnapshot(now, coin, vs, interval, loc)
    /\ log' = AppendLog(log, snap')
    /\ \E io \in {"ok", "fails"} :
          /\ Inject(io # "ok")
          /\ file' = save_log(file, log', io)
    /\ pc' = "release"
    /\ UNCHANGED <<config, lock, GROQ_API_KEY, loc, now, handlers, written, published,
                   abandoned, groqCalls>>

\* the end of the with block, which is the end of the try block
Release ==
    /\ pc = "release"
    /\ lock' = lock \ {Worker}
    /\ pc' = "sleep"
    /\ loc' = NoLocals
    /\ published' = published + 1
    /\ UNCHANGED <<shared, GROQ_API_KEY, now, handlers, written, abandoned, groqCalls,
                   faults>>

\* mutant of Except: the handler also resets the snapshot
ExceptResets ==
    /\ pc = "except"
    /\ pc' = "sleep"
    /\ loc' = NoLocals
    /\ abandoned' = abandoned + 1
    /\ snap' = EmptyDict
    /\ UNCHANGED <<config, log, file, lock, GROQ_API_KEY, now, handlers, written,
                   published, groqCalls, faults>>

\* mutant of Except: the handler leaves the loop
ExceptLeaves ==
    /\ pc = "except"
    /\ pc' = "done"
    /\ loc' = NoLocals
    /\ abandoned' = abandoned + 1
    /\ UNCHANGED <<shared, lock, GROQ_API_KEY, now, handlers, written, published,
                   groqCalls, faults>>

\* except Exception as exc: print("[bot]", exc)
Except ==
    /\ pc = "except"
    /\ pc' = "sleep"
    /\ loc' = NoLocals
    /\ abandoned' = abandoned + 1
    /\ UNCHANGED <<shared, lock, GROQ_API_KEY, now, handlers, written, published,
                   groqCalls, faults>>

\* max(5, self.interval), the argument of time.sleep
SleepFor(i) == MaxOf(MinInterval, i)

\* time.sleep(max(5, self.interval)): the call
Sleep ==
    /\ pc = "sleep"
    /\ pc' = "sleeping"
    /\ loc' = [loc EXCEPT !.dur = SleepFor(interval)]
    /\ UNCHANGED <<shared, lock, GROQ_API_KEY, now, handlers, history>>

\* time.sleep returns, and the loop body starts again
Wake ==
    /\ pc = "sleeping"
    /\ now + 1 < MaxCycles
    /\ now' = now + 1
    /\ pc' = "price_coin"
    /\ loc' = NoLocals
    /\ UNCHANGED <<shared, lock, GROQ_API_KEY, handlers, history>>

WorkerNext ==
    \/ PriceReadCoin \/ PriceCall \/ HistReadCoin \/ HistCall \/ News
    \/ PredReadCoin \/ PredCall \/ DecideReadCoin \/ DecideCall
    \/ Acquire \/ Publish \/ Release \/ Except \/ Sleep \/ Wake

-----------------------------------------------------------------------------
(* The request handlers: threads that call snapshot(), configure(), and the  *)
(* bodies of api_log and api_history.                                        *)

worker == <<pc, loc, now, published, abandoned, groqCalls, faults>>

\* a request arrives at an idle handler thread
Accept(h, req) ==
    /\ hpc[h] = "idle"
    /\ hreq' = [hreq EXCEPT ![h] = req]
    /\ hpc' = [hpc EXCEPT ![h] = "acquire"]
    /\ UNCHANGED <<shared, lock, GROQ_API_KEY, worker, written>>

AcceptSnapshot(h) == Accept(h, [NoRequest EXCEPT !.op = "snapshot"]) /\ UNCHANGED cfgs

AcceptLog(h) == Accept(h, [NoRequest EXCEPT !.op = "log"]) /\ UNCHANGED cfgs

AcceptHistory(h) == Accept(h, [NoRequest EXCEPT !.op = "history"]) /\ UNCHANGED cfgs

AcceptConfigure(h) ==
    /\ cfgs < MaxReconfigs
    /\ cfgs' = cfgs + 1
    /\ \E a \in CfgArgs :
          Accept(h, [op |-> "configure", coin |-> a[1], vs |-> a[2], interval |-> a[3]])

\* the first statement inside the with block of each operation
Body(op) ==
    CASE op = "snapshot"  -> "snap_copy"
      [] op = "log"       -> "log_copy"
      [] op = "history"   -> "hist_read"
      [] op = "configure" -> "cfg_coin"

\* with self.lock: / with bot.lock:
HAcquire(h) ==
    /\ hpc[h] = "acquire"
    /\ lock = {}
    /\ lock' = {h}
    /\ hpc' = [hpc EXCEPT ![h] = Body(hreq[h].op)]
    /\ UNCHANGED <<shared, GROQ_API_KEY, worker, hreq, cfgs, written>>

\* a step of a handler inside its with block; the step to "idle" is the last
\* of the block: the lock is released and the response is sent
HStep(h, from, to) ==
    /\ hpc[h] = from
    /\ h \in lock
    /\ hpc' = [hpc EXCEPT ![h] = to]
    /\ lock' = IF to = "idle" THEN lock \ {h} ELSE lock
    /\ hreq' = IF to = "idle" THEN [hreq EXCEPT ![h] = NoRequest] ELSE hreq
    /\ UNCHANGED <<GROQ_API_KEY, worker, cfgs>>

\* snapshot: return dict(self._snap)
SnapshotCopy(h) ==
    /\ HStep(h, "snap_copy", "idle")
    /\ UNCHANGED <<shared, written>>

\* api_log: return jsonify(bot.log)
LogCopy(h) ==
    /\ HStep(h, "log_copy", "idle")
    /\ UNCHANGED <<shared, written>>

\* api_history: get_history(bot.coin, bot.vs, days=1) is called, inside the
\* with block
HistoryRead(h) ==
    /\ hpc[h] = "hist_read"
    /\ h \in lock
    /\ hpc' = [hpc EXCEPT ![h] = "hist_net"]
    /\ hreq' = [hreq EXCEPT ![h].coin = coin, ![h].vs = vs]
    /\ UNCHANGED <<shared, lock, GROQ_API_KEY, worker, cfgs, written>>

\* mutant of HistoryCall: the lock is released only when get_history returns
HistoryCallKeepsLock(h) ==
    /\ hpc[h] = "hist_net"
    /\ h \in lock
    /\ hpc' = [hpc EXCEPT ![h] = "idle"]
    /\ hreq' = [hreq EXCEPT ![h] = NoRequest]
    /\ \E net \in {"ok", "fail"} :
          lock' = IF get_history(hreq[h].coin, hreq[h].vs, net).ok THEN lock \ {h} ELSE lock
    /\ UNCHANGED <<shared, GROQ_API_KEY, worker, cfgs, written>>

\* api_history: get_history returns or raises; either way the with block ends
HistoryCall(h) ==
    /\ HStep(h, "hist_net", "idle")
    /\ \E net \in {"ok", "fail"} : get_history(hreq[h].coin, hreq[h].vs, net).ok \in BOOLEAN
    /\ UNCHANGED <<shared, written>>

\* mutant of Clamp: the interval is taken as given
ClampForgotten(i) == i

\* max(5, interval) in configure
Clamp(i) == MaxOf(MinInterval, i)

\* configure: the tuple (coin.upper(), vs.upper(), max(5, interval))
CfgTuple(r) == <<Upper(r.coin), Upper(r.vs), Clamp(r.interval)>>

\* configure: self.coin = ...
CfgCoin(h) ==
    /\ HStep(h, "cfg_coin", "cfg_vs")
    /\ coin' = CfgTuple(hreq[h])[1]
    /\ written' = written \cup {CfgTuple(hreq[h])}
    /\ UNCHANGED <<vs, interval, snap, log, file>>

\* configure: self.vs = ...
CfgVs(h) ==
    /\ HStep(h, "cfg_vs", "cfg_interval")
    /\ vs' = CfgTuple(hreq[h])[2]
    /\ UNCHANGED <<coin, interval, snap, log, file, written>>

\* configure: self.interval = ...
CfgInterval(h) ==
    /\ HStep(h, "cfg_interval", "cfg_status")
    /\ interval' = CfgTuple(hreq[h])[3]
    /\ UNCHANGED <<coin, vs, snap, log, file, written>>

\* mutant of CfgStatus: the snapshot is replaced by a dict holding the status
CfgStatusReplaces(h) ==
    /\ HStep(h, "cfg_status", "idle")
    /\ snap' = [status |-> "reconfigured"]
    /\ UNCHANGED <<config, log, file, written>>

\* configure: self._snap["status"] = "reconfigured"
CfgStatus(h) ==
    /\ HStep(h, "cfg_status", "idle")
    /\ snap' = DictSet(snap, "status", "reconfigured")
    /\ UNCHANGED <<config, log, file, written>>

HandlerNext ==
    \E h \in Handlers :
        \/ AcceptSnapshot(h) \/ AcceptLog(h) \/ AcceptHistory(h) \/ AcceptConfigure(h)
        \/ HAcquire(h) \/ SnapshotCopy(h) \/ LogCopy(h)
        \/ HistoryRead(h) \/ HistoryCall(h)
        \/ CfgCoin(h) \/ CfgVs(h) \/ CfgInterval(h) \/ CfgStatus(h)

Next == WorkerNext \/ HandlerNext

Spec == Init /\ [][Next]_vars

\* the class constructed with other arguments than the program's
CtorSpec == InitAnyCtor /\ [][Next]_vars

(* Fair scheduling: the worker thread keeps running, every outbound call     *)
(* returns or fails, a thread inside a with block runs on to its end, and a  *)
(* thread that keeps finding the lock free from time to time gets it.        *)
Fairness ==
    /\ WF_vars(WorkerNext)
    /\ SF_vars(Acquire)
    /\ \A h \in Handlers :
          /\ SF_vars(HAcquire(h))
          /\ WF_vars(SnapshotCopy(h) \/ LogCopy(h) \/ HistoryRead(h) \/ HistoryCall(h)
                     \/ CfgCoin(h) \/ CfgVs(h) \/ CfgInterval(h) \/ CfgStatus(h))

LiveSpec == Spec /\ Fairness

\* the same, for the class constructed with other arguments
CtorLiveSpec == CtorSpec /\ Fairness

TypeOK ==
    /\ lock \subseteq {Worker} \cup Handlers
    /\ Cardinality(lock) <= 1
    /\ Len(log) <= MaxCycles
    /\ now < MaxCycles

-----------------------------------------------------------------------------
(* Properties *)

\* a dict without its "status" key
WithoutStatus(d) == [f \in DOMAIN d \ {"status"} |-> d[f]]

LastOf(l) == l[Len(l)]

\* the worker took a step
WorkerStep == pc' # pc

(* C1 as stated: whenever the log is empty the snapshot is the empty dict,   *)
(* and whenever the log is not empty its last entry equals the snapshot.     *)
C1_LastEntryIsSnapshot ==
    /\ log = << >> => snap = EmptyDict
    /\ log # << >> => LastOf(log) = snap

(* C1 amended: the same, up to the "status" key that configure sets in the   *)
(* snapshot: an empty log means a snapshot with no other key, and the last   *)
(* entry of a non-empty log equals the snapshot without its "status" key.    *)
C1_LastEntryIsSnapshotButStatus ==
    /\ log = << >> => WithoutStatus(snap) = EmptyDict
    /\ log # << >> => LastOf(log) = WithoutStatus(snap)

\* C1's case: a published snapshot that configure has marked
C1_Witness == log # << >> /\ "status" \in DOMAIN snap /\ pc = "sleeping"

(* C2: the log has one entry per cycle that ended by publishing, and every   *)
(* cycle that ended either published or was abandoned.                       *)
C2_LogLengthIsSuccesses ==
    /\ Len(log) = published + (IF pc = "release" THEN 1 ELSE 0)
    /\ published + abandoned = now + (IF pc \in {"sleep", "sleeping"} THEN 1 ELSE 0)

\* C2's case: one cycle abandoned and one published
C2_Witness == published = 1 /\ abandoned = 1 /\ Len(log) = 1

(* C3: a step of the worker into or out of the except clause changes neither *)
(* the snapshot, the log nor the file, the except clause is left for the     *)
(* sleep, and a cycle in the except clause has appended nothing and holds    *)
(* no lock.                                                                  *)
C3_AbandonedCycleChangesNothing ==
    /\ [][(WorkerStep /\ (pc = "except" \/ pc' = "except"))
             => (UNCHANGED <<snap, log, file>> /\ (pc = "except" => pc' = "sleep"))]_vars
    /\ [](pc = "except" => (loc.exc # "" /\ Len(log) = published /\ Worker \notin lock))

\* C3's case: a cycle fails after another has published
C3_Witness == pc = "except" /\ published = 1 /\ snap # EmptyDict

(* C4 as stated: the snapshot a cycle publishes carries the pair the cycle's *)
(* price was fetched for.                                                    *)
C4_SnapshotCarriesFetchedPair ==
    pc = "release" => <<snap.coin, snap.vs>> = loc.pair

(* C5 as stated: the (symbol, quote) arguments of every price, history,      *)
(* forecast and decision call of the worker, and of every history call of a  *)
(* handler, are those of one configuration that was assigned.                *)
C5_CallsUseOneConfiguration ==
    LET Pairs == { <<w[1], w[2]>> : w \in written }
    IN  /\ pc \in {"price_call", "hist_call", "pred_call", "decide_call"}
              => <<loc.coin, vs>> \in Pairs
        /\ \A h \in Handlers :
              hpc[h] = "hist_net" => <<hreq[h].coin, hreq[h].vs>> \in Pairs

(* C6: the end of the try block and the except clause both lead to the       *)
(* sleep, which lasts max(5, self.interval) and is followed by a new cycle;  *)
(* the worker is always at a position of the loop; and every cycle the       *)
(* bound allows begins, and ends in the sleep.                               *)
C6_WaitThenNextCycle ==
    /\ [][(WorkerStep /\ pc \in {"release", "except"}) => pc' = "sleep"]_vars
    /\ [][(WorkerStep /\ pc = "sleep")
             => (pc' = "sleeping" /\ loc'.dur = MaxOf(MinInterval, interval))]_vars
    /\ [][(WorkerStep /\ pc = "sleeping") => (pc' = "price_coin" /\ now' = now + 1)]_vars
    /\ \A n \in 0..(MaxCycles - 2) : (now = n) ~> (now = n + 1 /\ pc = "price_coin")
    /\ \A n \in 0..(MaxCycles - 1) : (now = n) ~> (now = n /\ pc = "sleeping")

\* C6's case: a new cycle begins after an abandoned one
C6_Witness == now = 1 /\ abandoned = 1 /\ pc = "price_coin"

\* no valid credential: the key is empty or the placeholder
KeyMissing == GROQ_API_KEY \in {"", PLACEHOLDER}

(* C7: without a key the service is never called, the decision call never    *)
(* raises, and it returns HOLD, the prompt composed from its arguments and   *)
(* the fixed diagnostic; so every snapshot published has the decision HOLD.  *)
C7_NoKeyMeansHold ==
    /\ [][(KeyMissing /\ WorkerStep /\ pc = "decide_call") => pc' = "acquire"]_vars
    /\ [](KeyMissing => groqCalls = 0)
    /\ []((KeyMissing /\ pc = "acquire") =>
            /\ loc.decision = "HOLD"
            /\ loc.ai_raw = "Groq key missing - default HOLD"
            /\ loc.prompt.headlines = loc.news
            /\ loc.prompt.current.price = loc.price
            /\ loc.prompt.forecast.na = (loc.pred = None))
    /\ [](KeyMissing => \A i \in 1..Len(log) : log[i].decision = "HOLD")

\* C7's case: a cycle publishes without a key
C7_Witness == GROQ_API_KEY = PLACEHOLDER /\ pc = "release" /\ snap.decision = "HOLD"

(* C8 as stated: a cycle whose price, history and news fetches succeeded,    *)
(* and whose forecast is absent, is not abandoned.                           *)
C8_ForecastFailureStillPublishes ==
    ~(pc = "except" /\ loc.exc \in {"IndexError", "APIError"} /\ loc.pred = None)

(* C8 amended: get_prediction never raises and returns None when its fetch   *)
(* fails, the prediction field is missing, or (for a quote other than USD)   *)
(* a price lookup fails or the USD price is zero; the worker always goes on  *)
(* from the forecast to the decision; and a cycle that publishes (its price, *)
(* history and news fetches and its decision call succeeded) publishes the   *)
(* forecast it got, absent included.                                         *)
C8_ForecastNeverRaises ==
    /\ [](pc = "pred_call" =>
            \A o \in PredOutcomes :
                LET r == get_prediction(loc.coin, vs, o)
                IN  /\ r.ok
                    /\ o \in {"neterr", "nofield"} => r.val = None
                    /\ (o \in {"pricefail", "zerousd"} /\ vs # "USD") => r.val = None)
    /\ [][(WorkerStep /\ pc = "pred_call") => pc' = "decide_coin"]_vars
    /\ [](pc = "release" => snap.prediction = loc.pred)

\* C8's case: the forecast fails in a cycle, and the cycle publishes
C8_Witness ==
    /\ pc = "release" /\ now = 0 /\ faults = 1 /\ cfgs = 0
    /\ snap.prediction = None /\ snap.news # << >> /\ file.state = "written"

(* C9 as stated: a failure of the headline fetch or parse never abandons the *)
(* cycle.                                                                    *)
C9_NewsFailureNeverAbandons ==
    ~(pc = "except" /\ loc.exc = "AttributeError")

(* C10 as stated: self.interval is at least 5 in every state, and so is the  *)
(* interval of the snapshot and of every log entry.                          *)
C10_IntervalAtLeastFive ==
    /\ interval >= MinInterval
    /\ "interval" \in DOMAIN snap => snap.interval >= MinInterval
    /\ \A i \in 1..Len(log) : log[i].interval >= MinInterval

(* C11 as stated: the snapshot changes only at the publish step of a cycle.  *)
C11_OnlyPublishChangesSnapshot ==
    [][snap' # snap => (pc = "publish" /\ pc' = "release")]_vars

\* a handler takes the last step of configure
MarksStatus == \E h \in Handlers : hpc[h] = "cfg_status" /\ hpc'[h] = "idle"

(* C11 amended: the snapshot changes only at the publish step, which         *)
(* replaces it by a dict built from the cycle's values (with no "status"     *)
(* key), and at the last step of configure, which sets the "status" key to   *)
(* "reconfigured" and leaves every other key as it was; so apart from the    *)
(* "status" key the snapshot changes only at the publish step.               *)
C11_OnlyPublishAndStatusChangeSnapshot ==
    /\ [][snap' # snap =>
            \/ /\ pc = "publish" /\ pc' = "release"
               /\ snap' = MakeSnapshot(now, coin, vs, interval, loc)
               /\ "status" \notin DOMAIN snap'
            \/ /\ MarksStatus
               /\ snap'.status = "reconfigured"
               /\ WithoutStatus(snap') = WithoutStatus(snap)]_vars
    /\ [][WithoutStatus(snap') # WithoutStatus(snap) => pc = "publish"]_vars

\* C11's case: configure has marked a published snapshot, which kept its fields
C11_Witness ==
    /\ "status" \in DOMAIN snap /\ "price" \in DOMAIN snap
    /\ cfgs = 1 /\ \A h \in Handlers : hpc[h] = "idle"

\* handler h takes a step of configure, from its acceptance to its return
ConfigureStep(h) == hreq[h].op = "configure" /\ hpc'[h] # hpc[h]

(* C12: when configure returns, self.coin, self.vs and self.interval are the *)
(* upper-cased symbol, the upper-cased quote and max(5, interval) of its     *)
(* arguments, and the snapshot's "status" is "reconfigured"; and no step of  *)
(* configure changes the log, the file, any other key of the snapshot, the   *)
(* worker's position, its locals (the duration of a sleep in progress among  *)
(* them) or the clock.                                                       *)
C12_ConfigureSetsConfigAndStatusOnly ==
    /\ [][\A h \in Handlers :
            (hpc[h] = "cfg_status" /\ hpc'[h] = "idle") =>
                /\ coin' = Upper(hreq[h].coin)
                /\ vs' = Upper(hreq[h].vs)
                /\ interval' = MaxOf(MinInterval, hreq[h].interval)
                /\ interval' >= MinInterval
                /\ snap'.status = "reconfigured"]_vars
    /\ [][\A h \in Handlers :
            ConfigureStep(h) =>
                /\ UNCHANGED <<log, file, pc, loc, now, published, abandoned>>
                /\ WithoutStatus(snap') = WithoutStatus(snap)]_vars

\* C12's case: configure has returned during a sleep that began before it
C12_Witness ==
    /\ pc = "sleeping" /\ loc.dur = DefaultInterval /\ interval = MinInterval
    /\ coin = "DOGE" /\ "status" \in DOMAIN snap /\ log # << >>
    /\ \A h \in Handlers : hpc[h] = "idle"

Decisions == {"BUY", "SELL", "HOLD"}

(* C13 as stated: the decision of the snapshot, once one is published, and   *)
(* of every log entry is BUY, SELL or HOLD.                                  *)
C13_DecisionIsBuySellHold ==
    /\ "decision" \in DOMAIN snap => snap.decision \in Decisions
    /\ \A i \in 1..Len(log) : log[i].decision \in Decisions

\* s is t, or t with entries added at its end
IsPrefix(s, t) == Len(s) <= Len(t) /\ SubSeq(t, 1, Len(s)) = s

(* C14: in every step the log before is a prefix of the log after; the log   *)
(* changes only at the publish step, which adds one entry at its end; and no *)
(* step of a handler, of an abandoned cycle or of a failed file write        *)
(* changes it.                                                               *)
C14_LogIsAppendOnly ==
    /\ [][IsPrefix(log, log')]_vars
    /\ [][log' # log => (pc = "publish" /\ Len(log') = Len(log) + 1)]_vars
    /\ [][(\E h \in Handlers : hpc'[h] # hpc[h]) => log' = log]_vars
    /\ [][(pc = "publish" /\ file'.state = "failed") => IsPrefix(log, log')]_vars

\* C14's case: two entries, the second one's file write failed, and a
\* configure call has marked the snapshot since
C14_Witness ==
    /\ Len(log) = 2 /\ file.state = "failed" /\ "status" \in DOMAIN snap
    /\ "status" \notin DOMAIN log[2]

(* C15: the publish step ends at the release whether or not the file write   *)
(* fails, with the new snapshot current and last in the log; the release     *)
(* frees the lock and leads to the sleep; a file that was written holds the  *)
(* whole log; and a write that succeeds after one that failed stores the     *)
(* whole log, the entry of the failed write included.                        *)
C15_FailedWriteIsNotFatal ==
    /\ [][(WorkerStep /\ pc = "publish") =>
            /\ pc' = "release"
            /\ Len(log') = Len(log) + 1
            /\ LastOf(log') = snap'
            /\ file'.state \in {"written", "failed"}]_vars
    /\ [][(WorkerStep /\ pc = "release") =>
            (pc' = "sleep" /\ Worker \notin lock' /\ UNCHANGED <<snap, log>>)]_vars
    /\ [](file.state = "written" => file.content = log)
    /\ [][(file.state = "failed" /\ file'.state = "written") =>
            (file'.content = log' /\ IsPrefix(log, file'.content)
             /\ Len(file'.content) = Len(log) + 1)]_vars

\* C15's case: the first cycle's file write failed, its snapshot is still
\* current and in the log, and the worker has slept, run the second cycle and
\* taken the lock again for the write that follows
C15_Witness ==
    /\ pc = "publish" /\ now = 1 /\ lock = {Worker}
    /\ file.state = "failed" /\ Len(log) = 1 /\ WithoutStatus(snap) = log[1]

\* the symbol has no id in the symbol map
Unmapped(c) == Upper(c) \notin DOMAIN SYMBOL_MAP

(* C16: a cycle that begins while self.coin is unmapped calls get_price with *)
(* an unmapped symbol; such a call raises ValueError, which ends the cycle   *)
(* in the except clause with snapshot, log and file as they were; ValueError *)
(* comes from the price fetch only; the cycle goes on to the sleep and the   *)
(* next cycle begins; and a cycle whose price fetch is made for a mapped     *)
(* symbol (as after configure has set one) reaches its publish step, or is   *)
(* abandoned for another reason than the unknown symbol; it publishes when   *)
(* none of its calls can fail any more and there is no reply to parse.       *)
C16_UnknownSymbolFailsCycleNotLoop ==
    /\ [][(WorkerStep /\ pc = "price_coin" /\ Unmapped(coin)) => Unmapped(loc'.coin)]_vars
    /\ [][(WorkerStep /\ pc = "price_call" /\ Unmapped(loc.coin)) =>
            /\ pc' = "except" /\ loc'.exc = "ValueError"
            /\ UNCHANGED <<snap, log, file>>]_vars
    /\ []((pc = "except" /\ loc.exc = "ValueError") =>
            (Unmapped(loc.coin) /\ loc.pair = <<"", "">> /\ Len(log) = published))
    /\ \A n \in 0..(MaxCycles - 1) :
          (now = n /\ pc = "price_call" /\ Unmapped(loc.coin))
              ~> (now = n /\ pc = "sleeping" /\ Len(log) = published)
    /\ \A n \in 0..(MaxCycles - 2) :
          (now = n /\ pc = "sleeping") ~> (now = n + 1 /\ pc = "price_coin")
    /\ (pc = "price_call" /\ ~Unmapped(loc.coin))
          ~> (pc = "release" \/ (pc = "except" /\ loc.exc # "ValueError"))
    /\ (pc = "price_call" /\ ~Unmapped(loc.coin) /\ faults = MaxFaults /\ KeyMissing)
          ~> (pc = "release")

\* C16's case: the bot began with an unmapped symbol, its first cycle was
\* abandoned with no call failing and no reply to parse, configure set a
\* mapped symbol, and the second cycle has published
C16_Witness ==
    /\ <<"DOGE", "USD", 1>> \in written /\ coin = "XRP"
    /\ abandoned = 1 /\ faults = 0 /\ KeyMissing
    /\ pc = "release" /\ now = 1 /\ snap.coin = "XRP" /\ Len(log) = 1

\* thread t is inside an outbound network call
InNetworkCall(t) ==
    IF t = Worker
    THEN pc \in {"price_call", "hist_call", "news", "pred_call", "decide_call"}
    ELSE hpc[t] = "hist_net"

(* C17 as stated: no thread is inside an outbound network call while it      *)
(* holds the lock.                                                           *)
C17_NoNetworkCallUnderLock ==
    \A t \in {Worker} \cup Handlers : t \in lock => ~InNetworkCall(t)

\* the worker's step from its position reads self.coin, self.vs or
\* self.interval, or reads or writes self._snap or self.log
WorkerAccessesShared ==
    pc \in {"price_coin", "price_call", "hist_coin", "hist_call", "pred_coin",
            "pred_call", "decide_coin", "decide_call", "publish", "sleep"}

\* handler h's step from its position reads or writes one of them
HandlerAccessesShared(h) ==
    hpc[h] \in {"snap_copy", "log_copy", "hist_read", "cfg_coin", "cfg_vs",
                "cfg_interval", "cfg_status"}

(* C18 as stated: a thread that reads or writes the configuration, the       *)
(* snapshot or the log holds the lock when it does.                          *)
C18_SharedAccessUnderLock ==
    /\ [][(WorkerStep /\ WorkerAccessesShared) => Worker \in lock]_vars
    /\ [][\A h \in Handlers :
            (hpc'[h] # hpc[h] /\ HandlerAccessesShared(h)) => h \in lock]_vars

\* the replies that are empty or whitespace only
BlankReplies == { r \in Replies \cup {<< >>} : \A i \in 1..Len(r) : IsSpace(r[i]) }

(* C19: with a key, groq_decision called with the cycle's values raises      *)
(* IndexError for every reply that is empty or whitespace only, after        *)
(* calling the service; IndexError arises nowhere else; the step that raises *)
(* it leads to the except clause with snapshot, log and file unchanged and   *)
(* no lock held, nothing having been appended; and the except clause leads   *)
(* to the sleep, again with snapshot and log unchanged.                      *)
C19_BlankReplyAbandonsCycle ==
    /\ []((pc = "decide_call" /\ ~KeyMissing) =>
            \A r \in BlankReplies :
                LET d == groq_decision(loc.news, loc.price, loc.pred,
                                       [i \in 1..Len(loc.hist) |-> loc.hist[i][2]],
                                       loc.coin, vs, GROQ_API_KEY, Return(r))
                IN  d.called /\ ~d.res.ok /\ d.res.err = "IndexError")
    /\ [][(WorkerStep /\ pc' = "except" /\ loc'.exc = "IndexError") =>
            /\ pc = "decide_call" /\ ~KeyMissing
            /\ groqCalls' = groqCalls + 1
            /\ UNCHANGED <<snap, log, file, lock>>]_vars
    /\ []((pc = "except" /\ loc.exc = "IndexError") =>
            (Worker \notin lock /\ Len(log) = published))
    /\ [][(WorkerStep /\ pc = "except" /\ loc.exc = "IndexError") =>
            (pc' = "sleep" /\ abandoned' = abandoned + 1 /\ UNCHANGED <<snap, log, file>>)]_vars

\* C19's case: the second cycle's reply was blank, after the first published
C19_Witness ==
    /\ pc = "except" /\ loc.exc = "IndexError" /\ now = 1
    /\ Len(log) = 1 /\ "decision" \in DOMAIN snap /\ groqCalls = 2

\* the positions inside a with block
WorkerInBlock == pc \in {"publish", "release"}
HandlerInBlock(h) ==
    hpc[h] \in {"snap_copy", "log_copy", "hist_read", "hist_net", "cfg_coin",
                "cfg_vs", "cfg_interval", "cfg_status"}

(* C20: a thread holds the lock exactly while it is inside a with block, so  *)
(* no thread asks for the lock while holding it and none leaves a block with *)
(* it, whether or not the file write or the history fetch failed; and under  *)
(* fair scheduling a held lock is released, and the worker waiting to        *)
(* publish and every handler waiting for the lock get it.                    *)
C20_LockDoesNotDeadlock ==
    /\ [](Worker \in lock <=> WorkerInBlock)
    /\ [](\A h \in Handlers : h \in lock <=> HandlerInBlock(h))
    /\ [][(WorkerStep /\ pc = "release") => lock' = {}]_vars
    /\ [][\A h \in Handlers : (hpc[h] = "hist_net" /\ hpc'[h] # hpc[h]) => lock' = {}]_vars
    /\ (lock # {}) ~> (lock = {})
    /\ (pc = "acquire") ~> (pc = "publish")
    /\ \A h \in Handlers : (hpc[h] = "acquire") ~> (h \in lock)

\* C20's case: the worker waits to publish while a handler holds the lock in
\* its history fetch
C20_Witness ==
    pc = "acquire" /\ \E h \in Handlers : h \in lock /\ hpc[h] = "hist_net"

====
